---- MODULE Spec2Model ----
(***************************************************************************)
(* Model of src/App.tsx: the App component's state (imageUri, predictions, *)
(* isLoading, serverIP) and its asynchronous handlers takePhoto,           *)
(* sendImageToServer and speakPredictions.  Every press of the capture     *)
(* button starts one invocation of takePhoto; an invocation runs between   *)
(* its awaits atomically and is suspended at each await, where the other   *)
(* invocations, the text field and the environment may act.                *)
(***************************************************************************)
EXTENDS Integers, Sequences, FiniteSets, TLC

\* Number of presses of the capture button in one run.
MaxPresses == 2
\* Longest predictions array of a response body.
MaxLen == 2

Tasks == 1..MaxPresses

\* Values the user types into the server address field; the first is the default.
DefaultIP == "54.164.207.27"
Addresses == {DefaultIP, "192.168.1.5"}

\* The file reference the camera returns for a capture: a new file each time.
CaptureUri(t) == "file:///photo" \o ToString(t) \o ".jpg"

\* The statuses requestCameraPermissionsAsync resolves with.
PermissionStatuses == {"granted", "denied", "undetermined"}

\* HTTP statuses of a response.
HttpStatuses == {200, 500}

(***************************************************************************)
(* Prediction (interface): probability is a number, held here as the exact *)
(* fraction num/den with den a power of two, a value a double holds        *)
(* exactly, as is its product with 100.                                    *)
(***************************************************************************)
Prediction == {
    [class_id |-> "1", class_name |-> "gato",  probability |-> [num |-> 477, den |-> 512]],
    [class_id |-> "2", class_name |-> "perro", probability |-> [num |-> 1,   den |-> 32]] }

RECURSIVE SeqsUpTo(_, _)
SeqsUpTo(S, n) ==
    IF n = 0 THEN {<<>>}
    ELSE LET shorter == SeqsUpTo(S, n - 1)
         IN  shorter \cup {Append(s, x) : s \in shorter, x \in S}

\* A JavaScript value held in the predictions state: an array of Prediction,
\* or undefined (isArray = FALSE).
JsArray(items) == [isArray |-> TRUE, items |-> items]
JsUndefined == [isArray |-> FALSE, items |-> <<>>]

(***************************************************************************)
(* Response bodies: text that is not JSON, the JSON value null, a JSON     *)
(* object with no predictions member, and PredictionResponse objects.      *)
(***************************************************************************)
PredictionResponse == {[kind |-> "predictions", predictions |-> s] : s \in SeqsUpTo(Prediction, MaxLen)}
Bodies ==
    {[kind |-> k, predictions |-> <<>>] : k \in {"notjson", "null", "nopredictions"}}
    \cup PredictionResponse

\* The component's state (useState), the invocations of takePhoto, the text
\* Speech.speak was last called with, and the body last parsed into data.
VARIABLES imageUri, predictions, isLoading, serverIP, tasks, utterance, received

vars == <<imageUri, predictions, isLoading, serverIP, tasks, utterance, received>>

NoUri == ""

(***************************************************************************)
(* One invocation of takePhoto.  Its locals: pc (the await it is suspended *)
(* at), ip (the serverIP its closure holds, until its last use), url (of   *)
(* its pending request), status (of the response it got).  What it has     *)
(* seen and done: the permission status it was given, calls of fetch       *)
(* (requests), alerts raised, console.error calls (logs), calls of         *)
(* Speech.speak (spoken), and how it ended (exit).                         *)
(***************************************************************************)
NewTask == [pc |-> "ready", ip |-> "", url |-> "", status |-> 0, permission |-> "",
            requests |-> 0, alerts |-> 0, logs |-> 0, spoken |-> 0, exit |-> ""]

Init ==
    /\ imageUri = NoUri
    /\ predictions = JsArray(<<>>)
    /\ isLoading = FALSE
    /\ serverIP = DefaultIP
    /\ tasks = [t \in Tasks |-> NewTask]
    /\ utterance = ""
    /\ received = [kind |-> "none", predictions |-> <<>>]

(***************************************************************************)
(* Number.prototype.toFixed: the decimal numeral of a non-negative number  *)
(* x = num/den with f fraction digits; n is the integer for which n/10^f   *)
(* is closest to x, the larger one when two are equally close.             *)
(***************************************************************************)
Digits == <<"0", "1", "2", "3", "4", "5", "6", "7", "8", "9">>

RECURSIVE Pow10(_)
Pow10(f) == IF f = 0 THEN 1 ELSE 10 * Pow10(f - 1)

RECURSIVE IntToString(_)
IntToString(n) ==
    IF n < 10 THEN Digits[n + 1]
    ELSE IntToString(n \div 10) \o Digits[(n % 10) + 1]

RECURSIVE FractionDigits(_, _)
FractionDigits(n, f) ==
    IF f = 0 THEN ""
    ELSE FractionDigits(n \div 10, f - 1) \o Digits[(n % 10) + 1]

ToFixed(x, f) ==
    LET n == (2 * x.num * Pow10(f) + x.den) \div (2 * x.den)
    IN  IntToString(n \div Pow10(f))
        \o (IF f = 0 THEN "" ELSE "." \o FractionDigits(n % Pow10(f), f))

\* pred.probability * 100
Times100(probability) == [num |-> probability.num * 100, den |-> probability.den]

\* Array.prototype.join
RECURSIVE Join(_, _)
Join(parts, sep) ==
    IF Len(parts) = 0 THEN ""
    ELSE IF Len(parts) = 1 THEN parts[1]
    ELSE parts[1] \o sep \o Join(Tail(parts), sep)

\* speakPredictions: the text handed to Speech.speak.
TextToSpeak(items) ==
    Join([i \in 1..Len(items) |->
            items[i].class_name \o " con " \o ToFixed(Times100(items[i].probability), 2)
                \o "% de probabilidad"],
         ". ")

\* The URL sendImageToServer fetches, from the serverIP its closure holds.
PredictUrl(ip) == "http://" \o ip \o ":8720/predict/"

(***************************************************************************)
(* The render: what the screen shows for a state.  The loading indicator   *)
(* replaces the results; the results are drawn only for a non-empty array. *)
(* Reading .length of undefined throws, which no error boundary catches.   *)
(***************************************************************************)
RenderThrows(loading, preds) == ~loading /\ ~preds.isArray

\* PredictionItems with the entries sorted by decreasing probability first.
Above(a, b) == a.probability.num * b.probability.den > b.probability.num * a.probability.den

RECURSIVE SortedByProbability(_)
SortedByProbability(items) ==
    IF Len(items) = 0 THEN <<>>
    ELSE LET best == CHOOSE i \in 1..Len(items) :
                        \A j \in 1..Len(items) : ~Above(items[j], items[i])
             rest == [k \in 1..(Len(items) - 1) |-> IF k < best THEN items[k] ELSE items[k + 1]]
         IN  <<items[best]>> \o SortedByProbability(rest)

PredictionItemsSorted(preds) ==
    LET sorted == SortedByProbability(preds.items)
    IN  [i \in 1..Len(sorted) |->
            [name |-> sorted[i].class_name,
             prob |-> ToFixed(Times100(sorted[i].probability), 2) \o "%"]]

PredictionItems(preds) ==
    [i \in 1..Len(preds.items) |->
        [name |-> preds.items[i].class_name,
         prob |-> ToFixed(Times100(preds.items[i].probability), 2) \o "%"]]

Render(image, loading, preds) ==
    [image   |-> image,
     loading |-> loading,
     results |-> IF ~loading /\ preds.isArray /\ Len(preds.items) > 0
                 THEN PredictionItems(preds) ELSE <<>>]

Screen == Render(imageUri, isLoading, predictions)

\* The component has thrown while rendering: nothing runs afterwards.
Crashed == RenderThrows(isLoading, predictions)

\* What is on screen: the render's output, and nothing once it has thrown.
Visible ==
    IF Crashed THEN [image |-> NoUri, loading |-> FALSE, results |-> <<>>] ELSE Screen

(***************************************************************************)
(* sendImageToServer's catch block (console.error, alert) and its finally  *)
(* block (setIsLoading(false)), which ends the invocation.                 *)
(***************************************************************************)
Caught(task) ==
    [task EXCEPT !.logs = @ + 1, !.alerts = @ + 1, !.exit = "requestError"]

\* An invocation that has returned keeps no locals.
Returned(task) ==
    [NewTask EXCEPT !.pc = "done", !.permission = task.permission,
                    !.requests = task.requests, !.alerts = task.alerts, !.logs = task.logs,
                    !.spoken = task.spoken, !.exit = task.exit]

\* Finally with setIsLoading(false) as the last statement of the try block
\* instead: the catch path skips it.
FinallyInTry(t, task) ==
    /\ isLoading' = (IF task.exit = "requestError" THEN isLoading ELSE FALSE)
    /\ tasks' = [tasks EXCEPT ![t] = Returned(task)]

Finally(t, task) ==
    /\ isLoading' = FALSE
    /\ tasks' = [tasks EXCEPT ![t] = Returned(task)]

\* The capture button is pressed: takePhoto of the current render starts, with
\* the serverIP of that render in its closure, and awaits the permission.
Press(t) ==
    /\ ~Crashed
    /\ tasks[t].pc = "ready"
    /\ \A u \in Tasks : u < t => tasks[u].pc # "ready"
    /\ tasks' = [tasks EXCEPT ![t].pc = "permission", ![t].ip = serverIP]
    /\ UNCHANGED <<imageUri, predictions, isLoading, serverIP, utterance, received>>

\* The user edits the server address field (onChangeText = setServerIP).
EditAddress(ip) ==
    /\ ~Crashed
    /\ ip # serverIP
    /\ serverIP' = ip
    /\ UNCHANGED <<imageUri, predictions, isLoading, tasks, utterance, received>>

\* Granted testing for "denied" only: "undetermined" passes.
GrantedUnlessDenied(status) == status # "denied"

\* takePhoto: the status that lets the flow go on to the camera.
Granted(status) == status = "granted"

\* requestCameraPermissionsAsync resolves with a status.
PermissionResult(t, status) ==
    /\ ~Crashed
    /\ tasks[t].pc = "permission"
    /\ IF ~Granted(status)
       THEN tasks' = [tasks EXCEPT ![t] =
                        Returned([@ EXCEPT !.permission = status, !.alerts = @ + 1,
                                           !.exit = "denied"])]
       ELSE tasks' = [tasks EXCEPT ![t].pc = "camera", ![t].permission = status]
    /\ UNCHANGED <<imageUri, predictions, isLoading, serverIP, utterance, received>>

\* requestCameraPermissionsAsync rejects: takePhoto has no handler for it.
PermissionReject(t) ==
    /\ ~Crashed
    /\ tasks[t].pc = "permission"
    /\ tasks' = [tasks EXCEPT ![t] =
                    [Returned([@ EXCEPT !.exit = "uncaught"]) EXCEPT !.pc = "unhandled"]]
    /\ UNCHANGED <<imageUri, predictions, isLoading, serverIP, utterance, received>>

\* CameraCancel resetting the results as a capture would be expected to.
CameraCancelClears(t) ==
    /\ ~Crashed
    /\ tasks[t].pc = "camera"
    /\ tasks' = [tasks EXCEPT ![t] = Returned([@ EXCEPT !.exit = "cancelled"])]
    /\ predictions' = JsArray(<<>>)
    /\ UNCHANGED <<imageUri, isLoading, serverIP, utterance, received>>

\* launchCameraAsync resolves with canceled = true.
CameraCancel(t) ==
    /\ ~Crashed
    /\ tasks[t].pc = "camera"
    /\ tasks' = [tasks EXCEPT ![t] = Returned([@ EXCEPT !.exit = "cancelled"])]
    /\ UNCHANGED <<imageUri, predictions, isLoading, serverIP, utterance, received>>

\* launchCameraAsync rejects: takePhoto has no handler for it.
CameraReject(t) ==
    /\ ~Crashed
    /\ tasks[t].pc = "camera"
    /\ tasks' = [tasks EXCEPT ![t] =
                    [Returned([@ EXCEPT !.exit = "uncaught"]) EXCEPT !.pc = "unhandled"]]
    /\ UNCHANGED <<imageUri, predictions, isLoading, serverIP, utterance, received>>

\* The serverIP sendImageToServer reads: the one of the render whose takePhoto
\* was pressed.
RequestIP(t) == tasks[t].ip

\* CameraCapture with the results of the previous capture cleared first.
CameraCaptureClears(t) ==
    /\ ~Crashed
    /\ tasks[t].pc = "camera"
    /\ imageUri' = CaptureUri(t)
    /\ isLoading' = TRUE
    /\ predictions' = JsArray(<<>>)
    /\ tasks' = [tasks EXCEPT ![t].pc = "fetch", ![t].ip = "",
                              ![t].url = PredictUrl(tasks[t].ip),
                              ![t].requests = @ + 1]
    /\ UNCHANGED <<serverIP, utterance, received>>

\* launchCameraAsync resolves with an image: setImageUri, then
\* sendImageToServer up to its fetch (setIsLoading(true), the POST).
CameraCapture(t) ==
    /\ ~Crashed
    /\ tasks[t].pc = "camera"
    /\ imageUri' = CaptureUri(t)
    /\ isLoading' = TRUE
    /\ tasks' = [tasks EXCEPT ![t].pc = "fetch", ![t].ip = "",
                              ![t].url = PredictUrl(RequestIP(t)),
                              ![t].requests = @ + 1]
    /\ UNCHANGED <<predictions, serverIP, utterance, received>>

\* FetchFail with one more attempt made from the catch block before giving up.
FetchFailRetries(t) ==
    /\ ~Crashed
    /\ tasks[t].pc = "fetch"
    /\ IF tasks[t].requests < 2
       THEN /\ tasks' = [tasks EXCEPT ![t].requests = @ + 1]
            /\ UNCHANGED isLoading
       ELSE Finally(t, Caught(tasks[t]))
    /\ UNCHANGED <<imageUri, predictions, serverIP, utterance, received>>

\* fetch rejects (network failure).
FetchFail(t) ==
    /\ ~Crashed
    /\ tasks[t].pc = "fetch"
    /\ Finally(t, Caught(tasks[t]))
    /\ UNCHANGED <<imageUri, predictions, serverIP, utterance, received>>

\* fetch resolves with a response of any status; response.json() starts.
FetchRespond(t, status) ==
    /\ ~Crashed
    /\ tasks[t].pc = "fetch"
    /\ tasks' = [tasks EXCEPT ![t].pc = "json", ![t].url = "", ![t].status = status]
    /\ UNCHANGED <<imageUri, predictions, isLoading, serverIP, utterance, received>>

\* DataPredictions with an empty list taken for a missing one.
DataPredictionsNonEmpty(body) ==
    IF body.kind = "predictions" /\ body.predictions # <<>>
    THEN JsArray(body.predictions) ELSE JsUndefined

\* data.predictions of a parsed body.
DataPredictions(body) ==
    IF body.kind = "predictions" THEN JsArray(body.predictions) ELSE JsUndefined

(***************************************************************************)
(* response.json() settles.  It rejects for a body that is not JSON, and   *)
(* reading .predictions of null throws: both go to the catch block.        *)
(* Otherwise setPredictions(data.predictions), then speakPredictions,      *)
(* whose .map throws on undefined before its try block (the promise        *)
(* awaited by sendImageToServer is then rejected) and which otherwise      *)
(* calls Speech.speak with the text.                                       *)
(***************************************************************************)
JsonSettle(t, body) ==
    /\ ~Crashed
    /\ tasks[t].pc = "json"
    /\ LET data == DataPredictions(body)
       IN  IF body.kind \in {"notjson", "null"}
           THEN /\ Finally(t, Caught(tasks[t]))
                /\ UNCHANGED <<predictions, utterance, received>>
           ELSE /\ predictions' = data
                /\ received' = body
                /\ isLoading' = isLoading
                /\ IF ~data.isArray
                   THEN /\ tasks' = [tasks EXCEPT ![t].pc = "rejected"]
                        /\ UNCHANGED utterance
                   ELSE /\ tasks' = [tasks EXCEPT ![t].pc = "speak", ![t].spoken = @ + 1]
                        /\ utterance' = TextToSpeak(data.items)
    /\ UNCHANGED <<imageUri, serverIP>>

\* The rejected promise of speakPredictions reaches sendImageToServer's catch.
SpeakRejected(t) ==
    /\ ~Crashed
    /\ tasks[t].pc = "rejected"
    /\ Finally(t, Caught(tasks[t]))
    /\ UNCHANGED <<imageUri, predictions, serverIP, utterance, received>>

\* Speech.speak returns; speakPredictions and then sendImageToServer finish.
SpeechReturn(t) ==
    /\ ~Crashed
    /\ tasks[t].pc = "speak"
    /\ Finally(t, [tasks[t] EXCEPT !.exit = "ok"])
    /\ UNCHANGED <<imageUri, predictions, serverIP, utterance, received>>

\* SpeechCaught without speakPredictions' try block: the failure reaches
\* sendImageToServer's catch block.
SpeechUncaught(task) == [task EXCEPT !.logs = @ + 1, !.alerts = @ + 1, !.exit = "speechError"]

\* speakPredictions' catch block: what a failure of Speech.speak leaves of
\* the invocation (console.error only).
SpeechCaught(task) == [task EXCEPT !.logs = @ + 1, !.exit = "speechError"]

\* Speech.speak fails; speakPredictions catches it and returns normally.
SpeechFail(t) ==
    /\ ~Crashed
    /\ tasks[t].pc = "speak"
    /\ Finally(t, SpeechCaught(tasks[t]))
    /\ UNCHANGED <<imageUri, predictions, serverIP, utterance, received>>

Next ==
    \/ \E t \in Tasks : Press(t)
    \/ \E ip \in Addresses : EditAddress(ip)
    \/ \E t \in Tasks, status \in PermissionStatuses : PermissionResult(t, status)
    \/ \E t \in Tasks : PermissionReject(t)
    \/ \E t \in Tasks : CameraCancel(t)
    \/ \E t \in Tasks : CameraReject(t)
    \/ \E t \in Tasks : CameraCapture(t)
    \/ \E t \in Tasks : FetchFail(t)
    \/ \E t \in Tasks, status \in HttpStatuses : FetchRespond(t, status)
    \/ \E t \in Tasks, body \in Bodies : JsonSettle(t, body)
    \/ \E t \in Tasks : SpeakRejected(t)
    \/ \E t \in Tasks : SpeechReturn(t)
    \/ \E t \in Tasks : SpeechFail(t)

Spec == Init /\ [][Next]_vars

(***************************************************************************)
(* The event loop runs a continuation once its promise has settled, and    *)
(* every request, body read and speech call is taken to settle; the user   *)
(* and the permission and camera dialogs may wait for ever.                *)
(***************************************************************************)
Settles(t) ==
    \/ FetchFail(t)
    \/ \E status \in HttpStatuses : FetchRespond(t, status)
    \/ \E body \in Bodies : JsonSettle(t, body)
    \/ SpeakRejected(t)
    \/ SpeechReturn(t)
    \/ SpeechFail(t)

LiveSpec == Spec /\ \A t \in Tasks : WF_vars(Settles(t))

\* sendImageToServer is running for t; its request is pending for t.
InFlight(t) == tasks[t].pc \in {"fetch", "json", "speak", "rejected"}
RequestPending(t) == tasks[t].pc \in {"fetch", "json"}

(***************************************************************************)
(* C1: every invocation of sendImageToServer releases the loading flag on  *)
(* every exit path: in the step in which an invocation finishes (after a   *)
(* successful response, a network failure, a body that does not parse, a   *)
(* body of another shape, or a speech failure) isLoading becomes false;    *)
(* and, every request, body read and speech call settling, a state in      *)
(* which isLoading is true is always followed by one in which it is false. *)
(***************************************************************************)
C1_LoadingReleased ==
    /\ [][\A t \in Tasks : (InFlight(t) /\ tasks'[t].pc = "done") => ~isLoading']_vars
    /\ (isLoading ~> ~isLoading)

\* C1's case: one invocation has finished through the catch block and another
\* after a speech failure, and the flag is released.
C1_Witness ==
    /\ ~isLoading
    /\ \E t, u \in Tasks : tasks[t].exit = "requestError" /\ tasks[u].exit = "speechError"

(***************************************************************************)
(* C2: in every reachable state, whatever the user has done (pressing the  *)
(* capture button again before an earlier upload has completed included),  *)
(* isLoading is true if and only if an upload is in flight.                *)
(***************************************************************************)
C2_LoadingIffInFlight == isLoading <=> (\E t \in Tasks : InFlight(t))

(***************************************************************************)
(* C3: no two uploads are ever in flight concurrently: in every reachable  *)
(* state at most one request sent by sendImageToServer is pending.         *)
(***************************************************************************)
C3_OneRequestPending == Cardinality({t \in Tasks : RequestPending(t)}) <= 1

\* The invocation t takes a step.
Steps(t) == tasks'[t] # tasks[t]

\* The response of t's upload is a failure: its status is not 2xx, or its body
\* is not JSON or JSON of another shape (the step it is parsed in leads to the
\* catch block at once, or through the rejected promise of speakPredictions).
FailedResponse(t) ==
    \/ tasks[t].pc \in {"json", "speak", "rejected"} /\ tasks[t].status # 200
    \/ tasks[t].pc = "json" /\ tasks'[t].pc \in {"done", "rejected"}
    \/ tasks[t].pc = "rejected"

(***************************************************************************)
(* C4: for every upload whose response is a non-2xx status or whose body   *)
(* is not valid JSON of the shape {predictions: [...]}, the handling of    *)
(* the response leaves predictions as they were and never calls the Speech *)
(* Announcer, and when it is over isLoading is false and exactly one alert *)
(* has been raised for the upload.                                         *)
(***************************************************************************)
C4_FailedResponse ==
    [][\A t \in Tasks : (FailedResponse(t) /\ Steps(t)) =>
          /\ predictions' = predictions
          /\ tasks'[t].spoken = 0
          /\ tasks'[t].pc = "done" => (~isLoading' /\ tasks'[t].alerts = 1)]_vars

(***************************************************************************)
(* C5: when takePhoto runs with the permission granted and the capture is  *)
(* cancelled, the Session State is unchanged (imageUri, predictions,       *)
(* isLoading, serverIP), no request is sent, no alert is raised and the    *)
(* Speech Announcer is not invoked.                                        *)
(***************************************************************************)
C5_CancelChangesNothing ==
    [][\A t \in Tasks : (tasks[t].pc = "camera" /\ tasks'[t].exit = "cancelled") =>
          /\ UNCHANGED <<imageUri, predictions, isLoading, serverIP, utterance>>
          /\ tasks'[t].pc = "done"
          /\ tasks'[t].url = ""
          /\ tasks'[t].alerts = 0
          /\ tasks'[t].spoken = 0]_vars

\* C5's case: a capture was cancelled while results of an earlier capture and
\* its image are on screen.
C5_Witness ==
    /\ \E t \in Tasks : tasks[t].exit = "cancelled" /\ tasks[t].permission = "granted"
    /\ imageUri # NoUri
    /\ predictions.isArray /\ Len(predictions.items) > 0

(***************************************************************************)
(* C6: when the permission request returns anything other than granted,    *)
(* takePhoto raises exactly one alert and returns: it never launches the   *)
(* camera, never sends a request, and leaves the Session State unchanged.  *)
(***************************************************************************)
C6_DeniedStopsTakePhoto ==
    /\ [](\A t \in Tasks : tasks[t].permission \notin {"", "granted"} =>
            /\ tasks[t].pc = "done"
            /\ tasks[t].exit = "denied"
            /\ tasks[t].alerts = 1
            /\ tasks[t].url = ""
            /\ tasks[t].spoken = 0)
    /\ [][\A t \in Tasks : (Steps(t) /\ tasks'[t].permission \notin {"", "granted"}) =>
            UNCHANGED <<imageUri, predictions, isLoading, serverIP, utterance>>]_vars

\* C6's case: the permission request returned "undetermined" and the
\* invocation has returned.
C6_Witness == \E t \in Tasks : tasks[t].permission = "undetermined" /\ tasks[t].pc = "done"

(***************************************************************************)
(* C7: the upload started by a capture is sent to the value the server     *)
(* address has at the moment the upload is triggered (after the capture    *)
(* returns), also when the address was edited after the button press.      *)
(***************************************************************************)
C7_RequestUsesCurrentAddress ==
    [][\A t \in Tasks : (tasks[t].pc = "camera" /\ tasks'[t].pc = "fetch") =>
          tasks'[t].url = PredictUrl(serverIP)]_vars

\* probability * 100 rounded to 2 decimals, as a numeral: the n for which
\* n/100 is the closest to 100 * num/den, the larger one of two.
ExpectedPercent(probability) ==
    LET scaled == 10000 * probability.num
        low    == scaled \div probability.den
        n      == CHOOSE k \in {low, low + 1} :
                     /\ 2 * (k * probability.den - scaled) <= probability.den
                     /\ 2 * (scaled - k * probability.den) < probability.den
    IN  ToString(n \div 100) \o "." \o (IF n % 100 < 10 THEN "0" ELSE "") \o ToString(n % 100)

(***************************************************************************)
(* C8: for every valid response, once it is stored and the screen is idle, *)
(* the displayed list is exactly the received sequence: as many entries,   *)
(* in the same order, nothing sorted, filtered or merged, each entry with  *)
(* its class_name and its probability * 100 formatted to 2 decimals.       *)
(***************************************************************************)
C8_DisplayIsReceived ==
    (received.kind = "predictions" /\ ~isLoading) =>
        /\ Len(Screen.results) = Len(received.predictions)
        /\ \A i \in 1..Len(received.predictions) :
              /\ Screen.results[i].name = received.predictions[i].class_name
              /\ Screen.results[i].prob
                    = ExpectedPercent(received.predictions[i].probability) \o "%"

\* C8's case: a response listing the less probable class first, and the same
\* class twice, has been stored and is on screen; 3.125 shows as 3.13.
C8_Witness ==
    /\ ~isLoading
    /\ received.kind = "predictions"
    /\ Len(received.predictions) >= 2
    /\ received.predictions[1].class_name = "perro"
    /\ received.predictions[2].class_name = "gato"
    /\ Screen.results[1] = [name |-> "perro", prob |-> "3.13%"]
    /\ Screen.results[2] = [name |-> "gato", prob |-> "93.16%"]
    /\ \E t \in Tasks : tasks[t].exit = "ok"

\* The sentence for a received list: for each prediction, in order, its
\* class_name, " con ", the percentage as the list displays it, and
\* " de probabilidad", joined with ". ".
RECURSIVE ExpectedText(_)
ExpectedText(list) ==
    IF Len(list) = 0 THEN ""
    ELSE list[1].class_name \o " con " \o PredictionItems(JsArray(list))[1].prob
            \o " de probabilidad"
            \o (IF Len(list) = 1 THEN "" ELSE ". " \o ExpectedText(Tail(list)))

\* C9, first half: a response that is stored invokes the Speech Announcer
\* once, with the sentence for the list received.
C9_SpokenOnSuccess ==
    /\ [][\A t \in Tasks : (tasks[t].pc = "json" /\ tasks'[t].pc = "speak") =>
            /\ tasks'[t].spoken = 1
            /\ utterance' = ExpectedText(received'.predictions)]_vars
    /\ [](\A t \in Tasks : tasks[t].exit \in {"ok", "speechError"} => tasks[t].spoken = 1)

\* C9, second half: no invocation for a cancelled capture, a denied permission
\* or a failed request (one that ended in the catch block, or whose response
\* has a status that is not 2xx).
C9_SilentOnFailure ==
    [](\A t \in Tasks :
        (\/ tasks[t].exit \in {"cancelled", "denied", "requestError"}
         \/ tasks[t].status \notin {0, 200}) => tasks[t].spoken = 0)

(***************************************************************************)
(* C9: for every successful response the Speech Announcer is invoked       *)
(* exactly once, with the phrases "{class_name} con {percentage}% de       *)
(* probabilidad" of the predictions in received order joined with ". ",    *)
(* the percentage being the string the displayed list shows; and it is     *)
(* never invoked for a cancelled capture, a denied permission or a failed  *)
(* request.                                                                *)
(***************************************************************************)
C9_SpeechAnnouncer == C9_SpokenOnSuccess /\ C9_SilentOnFailure

(***************************************************************************)
(* C10: if the Speech Announcer fails after a successful response, the     *)
(* failure is only logged: no alert is raised, predictions keeps the list  *)
(* stored when the response arrived (the failure changes nothing of it),   *)
(* and isLoading is cleared as on success.                                 *)
(***************************************************************************)
C10_SpeechFailureOnlyLogged ==
    [][\A t \in Tasks :
          /\ (tasks[t].pc = "json" /\ tasks'[t].pc = "speak") =>
                predictions' = JsArray(received'.predictions)
          /\ (tasks[t].pc = "speak" /\ tasks'[t].exit = "speechError") =>
                /\ tasks'[t].pc = "done"
                /\ tasks'[t].alerts = 0
                /\ tasks'[t].logs = 1
                /\ predictions' = predictions
                /\ ~isLoading']_vars

\* C10's case: an upload ended with a speech failure; its list is on screen.
C10_Witness ==
    /\ \E t \in Tasks : tasks[t].exit = "speechError" /\ tasks[t].alerts = 0
    /\ ~isLoading
    /\ received.kind = "predictions"
    /\ predictions = JsArray(received.predictions)
    /\ Len(predictions.items) > 0

(***************************************************************************)
(* C11: no failure is fatal: a failure at any suspend point (permission    *)
(* request, camera capture, network request, response parsing, speech) is  *)
(* caught there and ends in an alert or a silent no-op; no sequence of     *)
(* events reaches an uncaught error or a crashed state.                    *)
(***************************************************************************)
C11_NothingFatal ==
    /\ ~Crashed
    /\ \A t \in Tasks : tasks[t].pc # "unhandled"

\* C11, the part that is the render's: no response makes the component throw.
C11_RenderNeverThrows == ~Crashed

\* The captures of t that have returned with an image: its upload is running
\* or has finished.
Captures(t) ==
    IF InFlight(t) \/ tasks[t].exit \in {"ok", "speechError", "requestError"} THEN 1 ELSE 0

RECURSIVE SumOver(_, _)
SumOver(F(_), S) ==
    IF S = {} THEN 0
    ELSE LET t == CHOOSE x \in S : TRUE IN F(t) + SumOver(F, S \ {t})

RequestsOf(t) == tasks[t].requests

(***************************************************************************)
(* C12: no upload is retried: each capture that returned an image with the *)
(* permission granted has sent exactly one request, the others none; a     *)
(* request is sent only in the step in which a capture returns, so none    *)
(* follows a failed request until the button is pressed again; and in      *)
(* every state the number of requests sent equals the number of            *)
(* non-cancelled captures that have returned.                              *)
(***************************************************************************)
C12_NoRetry ==
    /\ [](\A t \in Tasks : tasks[t].requests = Captures(t))
    /\ [](SumOver(RequestsOf, Tasks) = SumOver(Captures, Tasks))
    /\ [][\A t \in Tasks : tasks'[t].requests # tasks[t].requests =>
            /\ tasks[t].pc = "camera"
            /\ tasks[t].permission = "granted"
            /\ tasks'[t].pc = "fetch"
            /\ tasks'[t].requests = 1]_vars

\* C12's case: a request has failed, its invocation has returned, and nothing
\* more was sent for it; the other capture was cancelled.
C12_Witness ==
    \E t, u \in Tasks :
        /\ tasks[t].exit = "requestError" /\ tasks[t].requests = 1
        /\ tasks[u].exit = "cancelled" /\ tasks[u].requests = 0

\* The invocation t gets an image from the camera in this step.
CaptureReturns(t) == tasks[t].pc = "camera" /\ tasks'[t].pc = "fetch"

\* C13, the state: imageUri is set by a capture before its upload starts, to
\* that capture's image, is changed by nothing else (a failed upload
\* included), and is never reset to empty.
C13_ImageKept ==
    /\ [][\A t \in Tasks : CaptureReturns(t) => imageUri' = CaptureUri(t)]_vars
    /\ [][imageUri' # imageUri => \E t \in Tasks : CaptureReturns(t)]_vars
    /\ [][imageUri # NoUri => imageUri' # NoUri]_vars
    /\ [](\A t \in Tasks : InFlight(t) => imageUri # NoUri)

(***************************************************************************)
(* C13: in every reachable state the image shown is the one of the most    *)
(* recent non-cancelled capture, if any: imageUri is set before the upload *)
(* starts, is shown while isLoading is true as well as when it is false,   *)
(* is kept when the upload fails, and is never reset to empty once set.    *)
(***************************************************************************)
C13_ImageShown == C13_ImageKept /\ [](Visible.image = imageUri)

\* The response of t is parsed in this step and is a PredictionResponse: a
\* successful response resolves.
SuccessResolves(t) == tasks[t].pc = "json" /\ tasks'[t].pc = "speak"

\* C14, what holds: every response that resolves with a predictions array is
\* stored whatever the order of the captures (also while another upload is
\* pending), and a capture, not a response, decides the image.
C14_LastStoredWins ==
    /\ [][\A t \in Tasks : SuccessResolves(t) =>
            /\ predictions' = JsArray(received'.predictions)
            /\ imageUri' = imageUri]_vars
    /\ [][predictions' # predictions => \E t \in Tasks : tasks[t].pc = "json" /\ Steps(t)]_vars

(***************************************************************************)
(* C14: when uploads overlap, the stored predictions are always those of   *)
(* the successful response that resolved most recently, whatever the order *)
(* of the captures (A resolving after B leaves A's predictions with B's    *)
(* image): predictions changes only when a successful response resolves,   *)
(* and then to its list; nothing discards a stale response.                *)
(***************************************************************************)
C14_MostRecentSuccess ==
    /\ C14_LastStoredWins
    /\ [][(Cardinality({t \in Tasks : InFlight(t)}) >= 2 /\ predictions' # predictions) =>
            \E t \in Tasks : SuccessResolves(t)]_vars

\* The request of t fails in this step (fetch rejects).
NetworkFailure(t) == tasks[t].pc = "fetch" /\ tasks'[t].pc = "done"

\* C15, the state: a capture that starts an upload leaves the stored
\* predictions as they are, and so does a network failure.
C15_StaleKept ==
    [][\A t \in Tasks : (CaptureReturns(t) \/ NetworkFailure(t)) =>
          predictions' = predictions]_vars

\* C15, after a network failure: the stored predictions, when they are a
\* list, are the displayed ones.
C15_ShownAfterFailure ==
    [][\A t \in Tasks : (NetworkFailure(t) /\ predictions.isArray) =>
          Visible'.results = PredictionItems(predictions)]_vars

C16_StepOrder ==
    /\ [][\A t \in Tasks : SuccessResolves(t) =>
            /\ predictions' = JsArray(received'.predictions)
            /\ utterance' = TextToSpeak(predictions'.items)
            /\ isLoading' = isLoading]_vars
    /\ [][\A t \in Tasks : (tasks[t].pc = "speak" /\ Steps(t)) =>
            /\ tasks'[t].pc = "done"
            /\ ~isLoading'
            /\ predictions' = predictions]_vars

(***************************************************************************)
(* C16: within one successful upload the steps are strictly ordered        *)
(* (setIsLoading(true), POST, JSON parse, store predictions, speak, await  *)
(* the speech call, setIsLoading(false)), hence isLoading stays true for   *)
(* the whole interval between the response arriving and the speech call    *)
(* returning.                                                              *)
(***************************************************************************)
C16_LoadingUntilSpoken ==
    /\ C16_StepOrder
    /\ [](\A t \in Tasks : tasks[t].pc = "speak" => isLoading)

EmptyResponse == [kind |-> "predictions", predictions |-> <<>>]

\* The body of t's response is parsed in this step, and it is {"predictions": []}.
EmptyReceived(t) ==
    /\ tasks[t].pc = "json" /\ tasks'[t].pc \in {"speak", "rejected"}
    /\ received' = EmptyResponse

(***************************************************************************)
(* C17: a response whose predictions list is empty is a success.  The      *)
(* empty list replaces the stored predictions, whatever they were, and     *)
(* Speech.speak is invoked once, with the empty string; the upload then    *)
(* ends without an alert and with isLoading cleared; while the empty list  *)
(* is the stored one, no prediction is displayed.                          *)
(***************************************************************************)
C17_EmptyListIsSuccess ==
    /\ [][\A t \in Tasks : EmptyReceived(t) =>
            /\ tasks'[t].pc = "speak"
            /\ predictions' = JsArray(<<>>)
            /\ utterance' = ""
            /\ tasks[t].spoken = 0 /\ tasks'[t].spoken = 1
            /\ tasks'[t].alerts = 0]_vars
    /\ [][\A t \in Tasks : (tasks[t].pc = "speak" /\ Steps(t)) =>
            /\ tasks'[t].exit \in {"ok", "speechError"}
            /\ tasks'[t].spoken = 1
            /\ tasks'[t].alerts = 0
            /\ ~isLoading']_vars
    /\ [](predictions = JsArray(<<>>) => Visible.results = <<>>)

\* C17's case: an upload that received the empty list has finished.
C17_Witness ==
    /\ received = EmptyResponse
    /\ predictions = JsArray(<<>>) /\ utterance = ""
    /\ ~isLoading /\ ~Crashed /\ Visible.results = <<>>
    /\ \E t \in Tasks :
          /\ tasks[t].exit = "ok" /\ tasks[t].spoken = 1 /\ tasks[t].alerts = 0
          /\ \E u \in Tasks \ {t} : tasks[u].exit = "ok"

====
